---- MODULE Spec2Model ----
(***************************************************************************)
(* Model of scripts/auto_login.py: the ClawCloud login driver (AutoLogin)  *)
(* and its Telegram notifier.  The browser, the GitHub pages and the       *)
(* Telegram API are the environment: every value read from them is a       *)
(* nondeterministic choice from a small set of representative values.      *)
(*                                                                         *)
(* Strings that the code searches with `in` are sequences of tokens; the   *)
(* tokens are cut so that every needle of the code is a whole number of    *)
(* tokens, and `in` is contiguous-subsequence search (Contains).           *)
(* str.lower() maps every token to its lower-case form (Lower).            *)
(***************************************************************************)
EXTENDS Integers, Sequences, FiniteSets, TLC

VARIABLES
    username,          \* AutoLogin.username  (os.environ.get('GH_USERNAME'))
    token,             \* AutoLogin.token     (os.environ.get('GH_PAT'))
    bot_token,         \* TelegramNotifier.bot_token
    chat_id,           \* TelegramNotifier.chat_id
    pc,                \* control point of AutoLogin.run
    branch,            \* "none" | "logged" (already signed in) | "main"
    open_url,          \* page.url as read by the already-signed-in test, <<>> before
    current_url,       \* the local current_url of login_github, wait_redirect or
                       \* verify_login while it runs, <<>> outside them
    screenshot_count,  \* AutoLogin.screenshot_count
    screenshots,       \* AutoLogin.screenshots
    steps,             \* history: the steps of run entered so far, in order
    failed,            \* history: the steps that have reported failure
    launched,          \* the browser was launched
    closed,            \* browser.close() ran
    click_result,      \* result of find_and_click for the GitHub button
    login_result,      \* result of login_github
    checks,            \* history: the page checks login_github evaluated
    banner_visible,    \* history: an error-banner selector matched a visible element
    wr_i,              \* wait_redirect: the loop index of the last poll
    wr_result,         \* result of wait_redirect
    wr_oauth,          \* last poll: the URL was the OAuth-consent page, not a success
    wr_oauth_polls,    \* number of polls that read the URL of the OAuth-consent page
    wr_handled,        \* last poll: handle_oauth was invoked
    wr_polls,          \* history: number of polls made
    wr_why,            \* which return statement of wait_redirect ran
    verify_result,     \* result of the last verify_login call
    verify_calls,      \* history: number of verify_login calls
    ctx_cookies,       \* what context.cookies() returned to verify_login
    cookie_file,       \* cookies.json
    cookie_writes,     \* history: number of writes of cookies.json in this run
    keepalive_result,  \* result of keepalive
    notify_success,    \* argument `success` of the pending send_notification
    notify_site,       \* where send_notification was called from
    photo_queue,       \* screenshots send_notification still has to send
    notifications,     \* history: the `success` argument of every send_notification call
    tg_messages,       \* history: number of send_message calls
    tg_photos,         \* history: the photo_path of every send_photo call
    tg_failed,         \* history: a request to Telegram failed (non-200 or transport error)
    exit_status        \* process exit status, -1 while running

vars == <<username, token, bot_token, chat_id, pc, branch, open_url, current_url,
          screenshot_count, screenshots, steps, failed, launched, closed,
          click_result, login_result, checks, banner_visible,
          wr_i, wr_result, wr_oauth, wr_oauth_polls, wr_handled, wr_polls, wr_why,
          verify_result, verify_calls, ctx_cookies, cookie_file, cookie_writes,
          keepalive_result, notify_success, notify_site, photo_queue,
          notifications, tg_messages, tg_photos, tg_failed, exit_status>>

-----------------------------------------------------------------------------
(* Bounds of the model *)

\* longest list context.cookies() returns
MaxCookies == 2

\* most polls of one wait_redirect call that meet the OAuth-consent page
MaxOauthPolls == 2

-----------------------------------------------------------------------------
(* Program constants *)

\* wait_redirect(self, page, max_wait=45)
max_wait == 45

\* `if i > 10 and (...)` in wait_redirect
StuckAfter == 10

-----------------------------------------------------------------------------
(* Strings *)

\* str.lower() on one token
LowerTok(t) ==
    CASE t = "SignIn" -> "signin"
      [] t = "Verify Your Device" -> "verify your device"
      [] t = "Too Many" -> "too many"
      [] OTHER -> t

\* str.lower()
Lower(s) == [i \in DOMAIN s |-> LowerTok(s[i])]

\* needle in s
Contains(s, needle) ==
    \E i \in 1..(Len(s) - Len(needle) + 1) :
        SubSeq(s, i, i + Len(needle) - 1) = needle

\* CLAW_CLOUD_URL + "/signin"
SIGNIN_URL == <<"https://eu-central-1.run.", "claw.cloud", "/", "signin">>

\* the URLs page.url can show
URLS == {
    SIGNIN_URL,
    <<"https://eu-central-1.run.", "claw.cloud", "/", "SignIn">>,
    <<"https://eu-central-1.run.", "claw.cloud", "/">>,
    <<"https://eu-central-1.run.", "claw.cloud", "/", "login">>,
    <<"https://", "github.com/", "login">>,
    <<"https://", "github.com/", "session">>,
    <<"https://", "github.com/", "login", "/oauth/authorize">>,
    <<"https://", "github.com/", "session", "s/", "two-factor">>,
    <<"https://", "github.com/", "session", "s/", "verified-device">>,
    <<"https://", "github.com/", "login", "?return_to=", "claw.cloud", "/callback">>,
    <<"about:blank">> }

\* an os.environ.get() result: None when the variable is not set
None == [set |-> FALSE, val |-> ""]
Str(v) == [set |-> TRUE, val |-> v]
\* Python truthiness of an Optional[str]
Truthy(v) == v.set /\ v.val # ""

CredValues == {None, Str(""), Str("octocat")}
TgValues == {None, Str("123:abc")}

\* TelegramNotifier.enabled
enabled == Truthy(bot_token) /\ Truthy(chat_id)

-----------------------------------------------------------------------------
(* Screenshots *)

\* the file name f"{screenshot_count:02d}_{name}.png"
Filename(n, name) == [seq |-> n, name |-> name]

-----------------------------------------------------------------------------
(* Cookies *)

COOKIES == {
    [name |-> "session", domain |-> <<".", "claw", ".cloud">>],
    [name |-> "token", domain |-> <<"eu-central-1.run.", "claw", ".cloud">>],
    [name |-> "_gh_sess", domain |-> <<"github.com">>],
    [name |-> "hostless"] }

CookieLists == UNION {[1..n -> COOKIES] : n \in 0..MaxCookies}

\* c.get('domain', '')
GetDomain(c) == IF "domain" \in DOMAIN c THEN c.domain ELSE <<>>

\* claw_cookies with the filter left out (a faulty variant, for C4)
claw_cookies_unfiltered(cookies) == cookies

\* [c for c in cookies if 'claw' in c.get('domain', '')]
claw_cookies(cookies) == SelectSeq(cookies, LAMBDA c : Contains(GetDomain(c), <<"claw">>))

NoFile == [exists |-> FALSE, data |-> <<>>]
File(d) == [exists |-> TRUE, data |-> d]

-----------------------------------------------------------------------------
Init ==
    /\ username \in CredValues
    /\ token \in CredValues
    /\ bot_token \in TgValues
    /\ chat_id \in TgValues
    /\ pc = "start"
    /\ branch = "none"
    /\ open_url = <<>>
    /\ current_url = <<>>
    /\ screenshot_count = 0
    /\ screenshots = <<>>
    /\ steps = <<>>
    /\ failed = {}
    /\ launched = FALSE
    /\ closed = FALSE
    /\ click_result = "none"
    /\ login_result = "none"
    /\ checks = <<>>
    /\ banner_visible = FALSE
    /\ wr_i = 0
    /\ wr_result = "none"
    /\ wr_oauth = FALSE
    /\ wr_oauth_polls = 0
    /\ wr_handled = FALSE
    /\ wr_polls = 0
    /\ wr_why = "none"
    /\ verify_result = "none"
    /\ verify_calls = 0
    /\ ctx_cookies = <<>>
    /\ cookie_file = NoFile
    /\ cookie_writes = 0
    /\ keepalive_result = "none"
    /\ notify_success = FALSE
    /\ notify_site = "none"
    /\ photo_queue = <<>>
    /\ notifications = <<>>
    /\ tg_messages = 0
    /\ tg_photos = <<>>
    /\ tg_failed = FALSE
    /\ exit_status = -1

-----------------------------------------------------------------------------
(* Variable groups and control transfers *)

envVars == <<username, token, bot_token, chat_id>>
shotVars == <<screenshot_count, screenshots>>
loginVars == <<click_result, login_result, checks, banner_visible>>
waitVars == <<wr_i, wr_result, wr_oauth, wr_oauth_polls, wr_handled, wr_polls, wr_why>>
verifyVars == <<verify_result, verify_calls, ctx_cookies, cookie_file, cookie_writes>>
callVars == <<notify_success, notify_site>>
tgVars == <<photo_queue, notifications, tg_messages, tg_photos, tg_failed>>

\* screenshots after the screenshot calls `names`, all successful
AddShots(names) ==
    screenshots \o [i \in 1..Len(names) |-> Filename(screenshot_count + i, names[i])]

\* the screenshot calls `names` succeed; the next call, if `raises`, fails in
\* page.screenshot, after screenshot_count += 1 and before the append
Shots(names, raises) ==
    /\ screenshots' = AddShots(names)
    /\ screenshot_count' = screenshot_count + Len(names) + (IF raises THEN 1 ELSE 0)

\* self.send_notification(success, ...) called at `site`
CallNotify(success, site) ==
    /\ pc' = "notify"
    /\ notify_success' = success
    /\ notify_site' = site

\* an Exception raised inside the try block of run: `except Exception as e`
Raise ==
    /\ pc' = "handler"
    /\ UNCHANGED callVars

\* the process leaves run with this status
Exit(status) ==
    /\ pc' = "exit"
    /\ exit_status' = status

-----------------------------------------------------------------------------
(* AutoLogin.validate_credentials and the head of run *)

\* validate_credentials testing GH_USERNAME alone (a faulty variant, for C5)
validate_credentials_username_only ==
    IF ~Truthy(username) THEN FALSE ELSE TRUE

validate_credentials ==
    IF ~Truthy(username) THEN FALSE
    ELSE IF ~Truthy(token) THEN FALSE
    ELSE TRUE

Validate ==
    /\ pc = "start"
    /\ IF ~validate_credentials
       THEN CallNotify(FALSE, "credentials")
       ELSE pc' = "launch" /\ UNCHANGED callVars
    /\ UNCHANGED <<envVars, branch, open_url, current_url, shotVars, steps, failed,
                   launched, closed, loginVars, waitVars, verifyVars,
                   keepalive_result, tgVars, exit_status>>

\* p.chromium.launch, browser.new_context, context.new_page: outside the try
\* block, so an exception ends the process with a traceback
Launch ==
    /\ pc = "launch"
    /\ \E ok \in BOOLEAN :
        IF ok
        THEN /\ launched' = TRUE
             /\ pc' = "open"
             /\ UNCHANGED exit_status
        ELSE /\ launched' = FALSE
             /\ Exit(1)
    /\ UNCHANGED <<envVars, branch, open_url, current_url, shotVars, steps, failed,
                   closed, loginVars, waitVars, verifyVars,
                   keepalive_result, callVars, tgVars>>

-----------------------------------------------------------------------------
(* Step 1: open the sign-in page, and the already-signed-in test *)

\* already_logged_in asking for the console's domain too (a faulty variant, for C7)
already_logged_in_on_claw(u) ==
    ~Contains(Lower(u), <<"signin">>) /\ Contains(u, <<"claw.cloud">>)

\* 'signin' not in page.url.lower()
already_logged_in(u) == ~Contains(Lower(u), <<"signin">>)

Open ==
    /\ pc = "open"
    /\ steps' = Append(steps, "open")
    /\ \E o \in {"goto_raises", "load_raises", "shot_raises", "ok"}, u \in URLS :
        CASE o \in {"goto_raises", "load_raises"} ->
                /\ Raise
                /\ failed' = failed \cup {"open"}
                /\ UNCHANGED <<shotVars, branch, open_url>>
          [] o = "shot_raises" ->
                /\ Raise
                /\ Shots(<<>>, TRUE)
                /\ failed' = failed \cup {"open"}
                /\ UNCHANGED <<branch, open_url>>
          [] o = "ok" ->
                /\ Shots(<<"clawcloud_signin_page">>, FALSE)
                /\ open_url' = u
                /\ branch' = IF already_logged_in(u) THEN "logged" ELSE "main"
                /\ pc' = IF already_logged_in(u) THEN "verify" ELSE "click"
                /\ UNCHANGED <<failed, callVars>>
    /\ UNCHANGED <<envVars, current_url, launched, closed, loginVars, waitVars,
                   verifyVars, keepalive_result, tgVars, exit_status>>

-----------------------------------------------------------------------------
(* Step 2: click the GitHub button *)

\* what a selector of find_and_click meets: a visible element that is clicked,
\* no visible element, or an exception of is_visible or click (swallowed)
SelStates == {"clickable", "hidden", "throws"}

find_and_click(sels) == \E i \in DOMAIN sels : sels[i] = "clickable"

\* 'github.com/login' in page.url or 'github.com/session' in page.url
github_login_page(u) ==
    \/ Contains(u, <<"github.com/", "login">>)
    \/ Contains(u, <<"github.com/", "session">>)

Click ==
    /\ pc = "click"
    /\ steps' = Append(steps, "click")
    /\ \E found \in {find_and_click(sels) : sels \in [1..4 -> SelStates]},
          o \in {"load_raises", "shot_raises", "ok"},
          on_github \in {github_login_page(u) : u \in URLS} :
        IF ~found
        THEN /\ click_result' = "False"
             /\ failed' = failed \cup {"click"}
             /\ IF o = "shot_raises"
                THEN Raise /\ Shots(<<>>, TRUE)
                ELSE CallNotify(FALSE, "click") /\ Shots(<<"button_not_found">>, FALSE)
        ELSE /\ click_result' = "True"
             /\ CASE o = "load_raises" ->
                        /\ Raise
                        /\ failed' = failed \cup {"click"}
                        /\ UNCHANGED shotVars
                  [] o = "shot_raises" ->
                        /\ Raise
                        /\ Shots(<<>>, TRUE)
                        /\ failed' = failed \cup {"click"}
                  [] o = "ok" ->
                        /\ Shots(<<"after_github_click">>, FALSE)
                        /\ pc' = IF on_github THEN "login_fill" ELSE "wait"
                        /\ UNCHANGED <<failed, callVars>>
    /\ UNCHANGED <<envVars, branch, open_url, current_url, launched, closed,
                   login_result, checks, banner_visible, waitVars, verifyVars,
                   keepalive_result, tgVars, exit_status>>

-----------------------------------------------------------------------------
(* Step 3: AutoLogin.login_github *)

\* lines 186-215: fill in the credentials, submit, wait for the page
LoginFill ==
    /\ pc = "login_fill"
    /\ steps' = Append(steps, "login_github")
    /\ \E o \in {"shot1_raises", "fill_raises", "shot2_raises", "submit_raises",
                 "load_raises", "shot3_raises", "ok"}, u \in URLS :
        CASE o = "shot1_raises" ->
                Raise /\ Shots(<<>>, TRUE) /\ UNCHANGED <<login_result, current_url>>
          [] o = "fill_raises" ->
                /\ Shots(<<"github_login_page">>, FALSE)
                /\ login_result' = "False"
                /\ pc' = "login_ret"
                /\ UNCHANGED <<callVars, current_url>>
          [] o = "shot2_raises" ->
                /\ Raise
                /\ Shots(<<"github_login_page">>, TRUE)
                /\ UNCHANGED <<login_result, current_url>>
          [] o = "submit_raises" ->
                /\ Shots(<<"github_login_page", "github_credentials_filled">>, FALSE)
                /\ login_result' = "False"
                /\ pc' = "login_ret"
                /\ UNCHANGED <<callVars, current_url>>
          [] o = "load_raises" ->
                /\ Raise
                /\ Shots(<<"github_login_page", "github_credentials_filled">>, FALSE)
                /\ UNCHANGED <<login_result, current_url>>
          [] o = "shot3_raises" ->
                /\ Raise
                /\ Shots(<<"github_login_page", "github_credentials_filled">>, TRUE)
                /\ UNCHANGED <<login_result, current_url>>
          [] o = "ok" ->
                /\ Shots(<<"github_login_page", "github_credentials_filled",
                           "github_after_login">>, FALSE)
                /\ current_url' = u
                /\ pc' = "check_error"
                /\ UNCHANGED <<callVars, login_result>>
    /\ failed' = IF pc' = "handler" THEN failed \cup {"login_github"} ELSE failed
    /\ UNCHANGED <<envVars, branch, open_url, launched, closed, click_result, checks,
                   banner_visible, waitVars, verifyVars, keepalive_result, tgVars,
                   exit_status>>

\* what an error-banner selector meets: no visible element, an exception of
\* is_visible, a visible element whose inner_text() raises, a visible element
\* with text, a visible element whose text is empty
BannerStates == {"hidden", "is_visible_throws", "inner_text_throws", "text", "empty"}

Visible(b) == b \in {"inner_text_throws", "text", "empty"}

\* AutoLogin.check_github_error: the inner text of the first selector whose
\* element is visible and readable, None when there is none
RECURSIVE check_github_error(_)
check_github_error(sels) ==
    IF sels = <<>> THEN None
    ELSE IF Head(sels) = "text" THEN Str("Incorrect username or password.")
    ELSE IF Head(sels) = "empty" THEN Str("")
    ELSE check_github_error(Tail(sels))

\* `if error:` in login_github
error_detected(error) == Truthy(error)

\* lines 217-221
CheckError ==
    /\ pc = "check_error"
    /\ checks' = Append(checks, "error")
    /\ \E seen \in {<<check_github_error(sels), \E i \in 1..3 : Visible(sels[i])>> :
                        sels \in [1..3 -> BannerStates]} :
        /\ banner_visible' = seen[2]
        /\ IF error_detected(seen[1])
           THEN login_result' = "False" /\ pc' = "login_ret"
           ELSE pc' = "check_device" /\ UNCHANGED login_result
    /\ UNCHANGED <<envVars, branch, open_url, current_url, shotVars, steps, failed,
                   launched, closed, click_result, waitVars, verifyVars,
                   keepalive_result, callVars, tgVars, exit_status>>

\* what page.content() can return
CONTENTS == {
    <<"Sign in to GitHub">>,
    <<"Verify Your Device">>,
    <<"We sent you a ", "verification code">>,
    <<"Incorrect username or password", ".">>,
    <<"Too Many", " failed login attempts">>,
    <<"Authorize application">> }

\* the URL test of check_device_verification
device_url(u) ==
    \/ Contains(u, <<"session", "s/", "verified-device">>)
    \/ Contains(u, <<"device-verification">>)

\* AutoLogin.check_device_verification
check_device_verification(u, content) ==
    IF device_url(u) THEN TRUE
    ELSE \E kw \in {"verify your device", "device verification",
                    "check your email", "verification code"} :
            Contains(Lower(content), <<kw>>)

\* lines 223-228
CheckDevice ==
    /\ pc = "check_device"
    /\ checks' = Append(checks, "device")
    /\ \E u \in URLS, content \in CONTENTS, o \in {"content_raises", "shot_raises", "ok"} :
        IF o = "content_raises" /\ ~device_url(u)
        THEN Raise /\ UNCHANGED <<shotVars, login_result>>
        ELSE IF check_device_verification(u, content)
        THEN IF o = "shot_raises"
             THEN Raise /\ Shots(<<>>, TRUE) /\ UNCHANGED login_result
             ELSE /\ Shots(<<"github_device_verification">>, FALSE)
                  /\ login_result' = "False"
                  /\ pc' = "login_ret"
                  /\ UNCHANGED callVars
        ELSE /\ pc' = "check_2fa"
             /\ UNCHANGED <<shotVars, login_result, callVars>>
    /\ failed' = IF pc' = "handler" THEN failed \cup {"login_github"} ELSE failed
    /\ UNCHANGED <<envVars, branch, open_url, current_url, steps,
                   launched, closed, click_result, banner_visible, waitVars, verifyVars,
                   keepalive_result, tgVars, exit_status>>

\* AutoLogin.check_2fa; otp: the OTP field is visible, is not, or is_visible raises
check_2fa(u, otp) ==
    IF Contains(u, <<"two-factor">>) THEN TRUE
    ELSE otp = "visible"

\* lines 230-234
Check2FA ==
    /\ pc = "check_2fa"
    /\ checks' = Append(checks, "2fa")
    /\ \E u \in URLS, otp \in {"visible", "hidden", "throws"}, shot_ok \in BOOLEAN :
        IF check_2fa(u, otp)
        THEN IF ~shot_ok
             THEN Raise /\ Shots(<<>>, TRUE) /\ UNCHANGED login_result
             ELSE /\ Shots(<<"github_two_factor">>, FALSE)
                  /\ login_result' = "False"
                  /\ pc' = "login_ret"
                  /\ UNCHANGED callVars
        ELSE /\ pc' = "check_still"
             /\ UNCHANGED <<shotVars, login_result, callVars>>
    /\ failed' = IF pc' = "handler" THEN failed \cup {"login_github"} ELSE failed
    /\ UNCHANGED <<envVars, branch, open_url, current_url, steps,
                   launched, closed, click_result, banner_visible, waitVars, verifyVars,
                   keepalive_result, tgVars, exit_status>>

\* lines 236-248: still on the GitHub login page (current_url is the URL read
\* on line 214)
CheckStill ==
    /\ pc = "check_still"
    /\ checks' = Append(checks, "still_on_login")
    /\ \E content \in CONTENTS, content_ok \in BOOLEAN :
        IF github_login_page(current_url)
        THEN IF ~content_ok
             THEN Raise /\ UNCHANGED login_result
             ELSE /\ login_result' =
                        IF Contains(content, <<"Incorrect username or password">>)
                        THEN "False"
                        ELSE IF Contains(Lower(content), <<"too many">>)
                        THEN "False"
                        ELSE "True"
                  /\ pc' = "login_ret"
                  /\ UNCHANGED callVars
        ELSE /\ login_result' = "True"
             /\ pc' = "login_ret"
             /\ UNCHANGED callVars
    /\ failed' = IF pc' = "handler" THEN failed \cup {"login_github"} ELSE failed
    /\ UNCHANGED <<envVars, branch, open_url, current_url, shotVars, steps,
                   launched, closed, click_result, banner_visible, waitVars, verifyVars,
                   keepalive_result, tgVars, exit_status>>

\* lines 461-465: run, after login_github returned
LoginRet ==
    /\ pc = "login_ret"
    /\ current_url' = <<>>
    /\ \E shot_ok \in BOOLEAN :
        IF login_result = "False"
        THEN /\ failed' = failed \cup {"login_github"}
             /\ IF shot_ok
                THEN CallNotify(FALSE, "login_github")
                        /\ Shots(<<"github_login_failed">>, FALSE)
                ELSE Raise /\ Shots(<<>>, TRUE)
        ELSE /\ pc' = "wait"
             /\ UNCHANGED <<failed, shotVars, callVars>>
    /\ UNCHANGED <<envVars, branch, open_url, steps, launched, closed,
                   loginVars, waitVars, verifyVars, keepalive_result, tgVars,
                   exit_status>>

-----------------------------------------------------------------------------
(* Step 4: AutoLogin.wait_redirect and AutoLogin.handle_oauth *)

\* 'claw.cloud' in current_url and 'signin' not in current_url.lower()
redirect_success(u) ==
    Contains(u, <<"claw.cloud">>) /\ ~Contains(Lower(u), <<"signin">>)

\* redirect_stuck with the comparison off by one, i >= 10 (a faulty variant, for C2)
redirect_stuck_from_10(i, u) == i >= StuckAfter /\ github_login_page(u)

\* i > 10 and ('github.com/login' in current_url or 'github.com/session' in current_url)
redirect_stuck(i, u) == i > StuckAfter /\ github_login_page(u)

\* 'github.com/login/oauth/authorize' in <url>
oauth_page(u) == Contains(u, <<"github.com/", "login", "/oauth/authorize">>)

\* one iteration of `for i in range(max_wait)`, with the return after the loop
\* when it was the last one.  u is page.url as the iteration reads it; o is
\* what handle_oauth meets: page.url, read again, is no longer the consent page
\* ("moved_on"), its screenshot raises, its wait_for_load_state raises, or none
\* of that ("ok": a screenshot is recorded; the result of find_and_click is
\* ignored).
WaitPoll ==
    /\ pc = "wait"
    /\ wr_polls < max_wait
    /\ steps' = IF wr_polls = 0 THEN Append(steps, "wait_redirect") ELSE steps
    /\ wr_i' = wr_polls
    /\ wr_polls' = wr_polls + 1
    /\ \E u \in URLS :
        /\ oauth_page(u) => wr_oauth_polls < MaxOauthPolls
        /\ wr_oauth_polls' = wr_oauth_polls + (IF oauth_page(u) THEN 1 ELSE 0)
        /\ current_url' = u
        /\ wr_oauth' = (oauth_page(u) /\ ~redirect_success(u))
        /\ IF redirect_success(u)
           THEN /\ wr_result' = "True"
                /\ wr_why' = "success"
                /\ wr_handled' = FALSE
                /\ pc' = "wait_ret"
                /\ UNCHANGED <<shotVars, callVars>>
           ELSE IF redirect_stuck(wr_polls, u)
           THEN /\ wr_result' = "False"
                /\ wr_why' = "stuck"
                /\ wr_handled' = FALSE
                /\ pc' = "wait_ret"
                /\ UNCHANGED <<shotVars, callVars>>
           ELSE /\ wr_handled' = oauth_page(u)
                /\ \E o \in IF oauth_page(u)
                            THEN {"moved_on", "shot_raises", "load_raises", "ok"}
                            ELSE {"none"} :
                    IF o \in {"shot_raises", "load_raises"}
                    THEN \* handle_oauth raises: its screenshot or wait_for_load_state
                         /\ Raise
                         /\ Shots(IF o = "shot_raises" THEN <<>> ELSE <<"oauth_page">>,
                                  o = "shot_raises")
                         /\ UNCHANGED <<wr_result, wr_why>>
                    ELSE /\ Shots(IF o = "ok" THEN <<"oauth_page">> ELSE <<>>, FALSE)
                         /\ UNCHANGED callVars
                         /\ IF wr_polls + 1 = max_wait
                            THEN /\ wr_result' = "False"
                                 /\ wr_why' = "timeout"
                                 /\ pc' = "wait_ret"
                            ELSE /\ pc' = "wait"
                                 /\ UNCHANGED <<wr_result, wr_why>>
    /\ failed' = IF pc' = "handler" THEN failed \cup {"wait_redirect"} ELSE failed
    /\ UNCHANGED <<envVars, branch, open_url, launched, closed, loginVars, verifyVars,
                   keepalive_result, tgVars, exit_status>>

\* lines 470-476: run, after wait_redirect returned; the locals of
\* wait_redirect are gone
WaitRet ==
    /\ pc = "wait_ret"
    /\ current_url' = <<>>
    /\ wr_i' = 0
    /\ wr_polls' = 0
    /\ wr_oauth' = FALSE
    /\ wr_oauth_polls' = 0
    /\ wr_handled' = FALSE
    /\ \E shot_ok \in BOOLEAN :
        IF wr_result = "False"
        THEN /\ failed' = failed \cup {"wait_redirect"}
             /\ IF shot_ok
                THEN CallNotify(FALSE, "wait_redirect")
                        /\ Shots(<<"redirect_failed">>, FALSE)
                ELSE Raise /\ Shots(<<>>, TRUE)
        ELSE /\ UNCHANGED failed
             /\ IF shot_ok
                THEN /\ pc' = "verify"
                     /\ Shots(<<"redirect_ok">>, FALSE)
                     /\ UNCHANGED callVars
                ELSE Raise /\ Shots(<<>>, TRUE)
    /\ UNCHANGED <<envVars, branch, open_url, steps, launched, closed,
                   loginVars, wr_result, wr_why, verifyVars, keepalive_result, tgVars,
                   exit_status>>

-----------------------------------------------------------------------------
(* Step 5: AutoLogin.verify_login *)

\* verify_login without the test for an empty cookie list (a faulty variant, for C10)
verify_login_any_cookies(u, cookies) ==
    IF ~Contains(u, <<"claw.cloud">>) THEN "False"
    ELSE IF Contains(Lower(u), <<"signin">>) \/ Contains(Lower(u), <<"login">>)
    THEN "False"
    ELSE "True"

\* the return value of verify_login for page.url u and context.cookies() cookies
verify_login(u, cookies) ==
    IF ~Contains(u, <<"claw.cloud">>) THEN "False"
    ELSE IF Contains(Lower(u), <<"signin">>) \/ Contains(Lower(u), <<"login">>)
    THEN "False"
    ELSE IF Len(claw_cookies(cookies)) = 0 THEN "False"
    ELSE "True"

\* whether verify_login gets as far as context.cookies() (line 313)
reads_cookies(u) ==
    /\ Contains(u, <<"claw.cloud">>)
    /\ ~(Contains(Lower(u), <<"signin">>) \/ Contains(Lower(u), <<"login">>))

Verify ==
    /\ pc = "verify"
    /\ steps' = Append(steps, "verify_login")
    /\ verify_calls' = verify_calls + 1
    /\ \E u \in URLS, cookies \in CookieLists, raises \in BOOLEAN :
        IF raises
        THEN \* page.title(), context.cookies() or open() raises: nothing written
             /\ Raise
             /\ failed' = failed \cup {"verify_login"}
             /\ UNCHANGED <<current_url, verify_result, ctx_cookies, cookie_file,
                            cookie_writes>>
        ELSE /\ current_url' = u
             /\ verify_result' = verify_login(u, cookies)
             /\ ctx_cookies' = IF reads_cookies(u) THEN cookies ELSE <<>>
             /\ IF verify_login(u, cookies) = "True"
                THEN /\ cookie_file' = File(claw_cookies(cookies))
                     /\ cookie_writes' = cookie_writes + 1
                ELSE UNCHANGED <<cookie_file, cookie_writes>>
             /\ pc' = "verify_ret"
             /\ UNCHANGED <<failed, callVars>>
    /\ UNCHANGED <<envVars, branch, open_url, shotVars, launched, closed, loginVars,
                   waitVars, keepalive_result, tgVars, exit_status>>

\* lines 428-435 (already signed in) and 481-485: run, after verify_login returned
VerifyRet ==
    /\ pc = "verify_ret"
    /\ current_url' = <<>>
    /\ ctx_cookies' = <<>>
    /\ \E shot_ok \in BOOLEAN :
        IF verify_result = "True"
        THEN /\ pc' = "keepalive"
             /\ UNCHANGED <<failed, shotVars, callVars>>
        ELSE /\ failed' = failed \cup {"verify_login"}
             /\ IF branch = "logged"
                THEN CallNotify(FALSE, "already_logged_in_failed") /\ UNCHANGED shotVars
                ELSE IF shot_ok
                THEN CallNotify(FALSE, "verify_login")
                        /\ Shots(<<"verify_failed">>, FALSE)
                ELSE Raise /\ Shots(<<>>, TRUE)
    /\ UNCHANGED <<envVars, branch, open_url, steps, launched, closed,
                   loginVars, waitVars, verify_result, verify_calls, cookie_file,
                   cookie_writes, keepalive_result, tgVars, exit_status>>

-----------------------------------------------------------------------------
(* Step 6: AutoLogin.keepalive *)

\* the visit of one page: the result of keepalive's loop body, "continue" when
\* the loop goes on.  ok: goto and wait_for_load_state did not raise.
visit(ok, u) ==
    IF ok /\ Contains(Lower(u), <<"signin">>) THEN "False" ELSE "continue"

\* keepalive over its two pages; run ignores the result (lines 429 and 489)
Keepalive ==
    /\ pc = "keepalive"
    /\ steps' = Append(steps, "keepalive")
    /\ \E v1 \in {visit(ok, u) : ok \in BOOLEAN, u \in URLS},
          v2 \in {visit(ok, u) : ok \in BOOLEAN, u \in URLS}, shot_ok \in BOOLEAN :
        IF v1 = "False" \/ v2 = "False"
        THEN /\ keepalive_result' = "False"
             /\ failed' = failed \cup {"keepalive"}
             /\ CallNotify(TRUE, IF branch = "logged" THEN "already_logged_in" ELSE "success")
             /\ UNCHANGED shotVars
        ELSE IF shot_ok
        THEN /\ keepalive_result' = "True"
             /\ Shots(<<"keepalive_done">>, FALSE)
             /\ CallNotify(TRUE, IF branch = "logged" THEN "already_logged_in" ELSE "success")
             /\ UNCHANGED failed
        ELSE /\ Raise
             /\ Shots(<<>>, TRUE)
             /\ failed' = failed \cup {"keepalive"}
             /\ UNCHANGED keepalive_result
    /\ UNCHANGED <<envVars, branch, open_url, current_url, launched, closed, loginVars,
                   waitVars, verifyVars, tgVars, exit_status>>

-----------------------------------------------------------------------------
(* TelegramNotifier *)

\* what requests.post meets
Outcomes == {"ok200", "non200", "transport_error"}

\* requests.post(...) and `response.status_code == 200`
post(o) ==
    CASE o = "ok200" -> "True"
      [] o = "non200" -> "False"
      [] o = "transport_error" -> "Raised"

\* try: ... except Exception as e: print(...); return False
swallow(r) == IF r = "Raised" THEN "False" ELSE r

\* send_message without its try/except (a faulty variant, for C6)
send_message_unguarded(o) ==
    IF ~enabled THEN "False" ELSE post(o)

\* TelegramNotifier.send_message
send_message(o) ==
    IF ~enabled THEN "False" ELSE swallow(post(o))

\* TelegramNotifier.send_photo; exists: os.path.exists(photo_path)
send_photo(exists, o) ==
    IF ~enabled THEN "False"
    ELSE IF ~exists THEN "False"
    ELSE swallow(post(o))

\* TelegramNotifier.send_document; exists: os.path.exists(file_path)
send_document(exists, o) ==
    IF ~enabled THEN "False"
    ELSE IF ~exists THEN "False"
    ELSE swallow(post(o))

-----------------------------------------------------------------------------
(* AutoLogin.send_notification *)

\* the photos send_notification sends, in order: the last screenshot, then, on
\* failure with more than one screenshot, all the others
photo_plan(success, shots) ==
    IF shots = <<>> THEN <<>>
    ELSE <<shots[Len(shots)]>> \o
         (IF ~success /\ Len(shots) > 1 THEN SubSeq(shots, 1, Len(shots) - 1) ELSE <<>>)

\* the exit status run ends with after the send_notification call at `site`:
\* `return` and the end of run after the two success calls, sys.exit(1) after
\* every other
exit_after(site) == IF site \in {"already_logged_in", "success"} THEN 0 ELSE 1

\* an exception leaving send_notification called at `site`: outside the try
\* block and inside the except clause nothing catches it
Propagate(site) ==
    IF site \in {"credentials", "handler"}
    THEN Exit(1)
    ELSE pc' = "handler" /\ UNCHANGED exit_status

\* send_notification up to and including send_message
Notify ==
    /\ pc = "notify"
    /\ notifications' = Append(notifications, notify_success)
    /\ IF ~enabled
       THEN /\ Exit(exit_after(notify_site))
            /\ UNCHANGED <<photo_queue, tg_messages, tg_failed>>
       ELSE /\ tg_messages' = tg_messages + 1
            /\ \E o \in Outcomes :
                /\ tg_failed' = (tg_failed \/ o # "ok200")
                /\ IF send_message(o) = "Raised"
                   THEN Propagate(notify_site) /\ UNCHANGED photo_queue
                   ELSE IF photo_plan(notify_success, screenshots) = <<>>
                   THEN Exit(exit_after(notify_site)) /\ UNCHANGED photo_queue
                   ELSE /\ photo_queue' = photo_plan(notify_success, screenshots)
                        /\ pc' = "notify_photo"
                        /\ UNCHANGED exit_status
    /\ UNCHANGED <<envVars, branch, open_url, current_url, shotVars, steps, failed,
                   launched, closed, loginVars, waitVars, verifyVars, keepalive_result,
                   callVars, tg_photos>>

\* one send_photo call of send_notification, and its end after the last one
NotifyPhoto ==
    /\ pc = "notify_photo"
    /\ photo_queue # <<>>
    /\ tg_photos' = Append(tg_photos, Head(photo_queue))
    /\ photo_queue' = Tail(photo_queue)
    /\ \E exists \in BOOLEAN, o \in Outcomes :
        /\ tg_failed' = (tg_failed \/ (exists /\ o # "ok200"))
        /\ IF send_photo(exists, o) = "Raised"
           THEN Propagate(notify_site)
           ELSE IF Tail(photo_queue) = <<>>
           THEN Exit(exit_after(notify_site))
           ELSE UNCHANGED <<pc, exit_status>>
    /\ UNCHANGED <<envVars, branch, open_url, current_url, shotVars, steps, failed,
                   launched, closed, loginVars, waitVars, verifyVars, keepalive_result,
                   callVars, notifications, tg_messages>>

-----------------------------------------------------------------------------
(* The except clause and the finally clause of run *)

\* lines 498-504; an exception of its screenshot leaves the clause uncaught
Handler ==
    /\ pc = "handler"
    /\ \E shot_ok \in BOOLEAN :
        IF shot_ok
        THEN /\ Shots(<<"exception">>, FALSE)
             /\ CallNotify(FALSE, "handler")
             /\ UNCHANGED exit_status
        ELSE /\ Shots(<<>>, TRUE)
             /\ Exit(1)
             /\ UNCHANGED callVars
    /\ UNCHANGED <<envVars, branch, open_url, current_url, steps, failed,
                   launched, closed, loginVars, waitVars, verifyVars, keepalive_result,
                   tgVars>>

\* the process ends: browser.close() in the finally clause when the try block
\* was entered
Finish ==
    /\ pc = "exit"
    /\ pc' = "done"
    /\ closed' = launched
    /\ UNCHANGED <<envVars, branch, open_url, current_url, shotVars, steps, failed,
                   launched, loginVars, waitVars, verifyVars, keepalive_result,
                   callVars, tgVars, exit_status>>

-----------------------------------------------------------------------------
Next ==
    \/ Validate
    \/ Launch
    \/ Open
    \/ Click
    \/ LoginFill
    \/ CheckError
    \/ CheckDevice
    \/ Check2FA
    \/ CheckStill
    \/ LoginRet
    \/ WaitPoll
    \/ WaitRet
    \/ Verify
    \/ VerifyRet
    \/ Keepalive
    \/ Notify
    \/ NotifyPhoto
    \/ Handler
    \/ Finish

Spec == Init /\ [][Next]_vars

-----------------------------------------------------------------------------
(* Properties *)

Range(s) == {s[i] : i \in DOMAIN s}

\* the screenshots run takes when a step has failed
FailureShots == {"button_not_found", "github_login_failed", "redirect_failed",
                 "verify_failed", "exception"}

\* C1 (as claimed): when a step of run has failed (returned False or raised),
\* no later step was entered, a failure screenshot was taken,
\* send_notification(False) was called and the exit status is not 0 -- also
\* for keepalive returning False and for verify_login failing when already
\* signed in.  Stated for the runs in which no screenshot call raised.
C1_StepFailureEndsRun ==
    (pc = "done" /\ failed # {} /\ screenshot_count = Len(screenshots)) =>
        /\ steps[Len(steps)] \in failed
        /\ \E i \in DOMAIN screenshots : screenshots[i].name \in FailureShots
        /\ notifications = <<FALSE>>
        /\ exit_status # 0

\* C2: the URL wait_redirect looks for
C2_Qualifies(u) == Contains(u, <<"claw.cloud">>) /\ ~Contains(Lower(u), <<"signin">>)

\* C2: a URL of the GitHub login or session pages at an index above 10
C2_StuckLate(i, u) ==
    i > 10 /\ (Contains(u, <<"github.com/", "login">>) \/ Contains(u, <<"github.com/", "session">>))

\* C2 (as claimed): wait_redirect returns True exactly when a polled URL
\* qualifies, and returns False only when none of the polls 0..max_wait-1
\* qualified, so only after all max_wait polls
C2_FalseOnlyAfterAllPolls ==
    pc = "wait_ret" =>
        /\ (wr_result = "True") <=> C2_Qualifies(current_url)
        /\ (wr_result = "False") => wr_polls = max_wait

\* C2 (amended): wait_redirect stops at the first poll whose URL qualifies,
\* with True, or at the first poll with index above 10 whose URL does not
\* qualify and is a GitHub login or session URL, with False, or after
\* max_wait polls that did neither, with False; while it goes on polling, the
\* URL just polled did neither
C2_WaitRedirectResult ==
    /\ [](pc = "wait_ret" =>
            /\ wr_polls = wr_i + 1
            /\ wr_polls <= max_wait
            /\ (wr_result = "True") <=> C2_Qualifies(current_url)
            /\ (wr_result = "False") <=>
                    /\ ~C2_Qualifies(current_url)
                    /\ C2_StuckLate(wr_i, current_url) \/ wr_polls = max_wait)
    /\ [][(pc = "wait" /\ pc' = "wait") =>
            /\ ~C2_Qualifies(current_url')
            /\ ~C2_StuckLate(wr_i', current_url')
            /\ wr_polls' < max_wait]_vars

\* C2 witness: wait_redirect has returned False at index 11, before the bound
C2_Witness ==
    /\ pc = "wait_ret"
    /\ wr_result = "False"
    /\ wr_i = 11
    /\ wr_polls < max_wait

\* C3: the photos of a notification, from the claim: none without a
\* screenshot, the last one, and the others only on failure
C3_Photos(success, shots) ==
    IF Len(shots) = 0 THEN <<>>
    ELSE IF ~success /\ Len(shots) > 1
    THEN <<shots[Len(shots)]>> \o [i \in 1..(Len(shots) - 1) |-> shots[i]]
    ELSE <<shots[Len(shots)]>>

\* C3 (as claimed): with the notifier enabled, a run that ends after the
\* credential test failed or after the browser session began has called
\* send_notification exactly once, and that call sent the photos of the claim
C3_NotifiedExactlyOnce ==
    (pc = "done" /\ enabled /\ (launched \/ ~validate_credentials)) =>
        /\ Len(notifications) = 1
        /\ tg_messages = 1
        /\ tg_photos = C3_Photos(notifications[1], screenshots)

\* C4: the cookies of the list whose domain contains 'claw', in order
RECURSIVE C4_Kept(_)
C4_Kept(cookies) ==
    IF cookies = <<>> THEN <<>>
    ELSE LET c == Head(cookies)
         IN  (IF "domain" \in DOMAIN c /\ Contains(c.domain, <<"claw">>)
              THEN <<c>> ELSE <<>>) \o C4_Kept(Tail(cookies))

C5_Missing(v) == v = None \/ v = Str("")

\* C5: with a credential missing, the browser is never launched, no step of
\* run is entered, the run goes on until it has ended, and it ends with
\* exit status 1
C5_MissingCredentialsExit1 ==
    (C5_Missing(username) \/ C5_Missing(token)) =>
        /\ ~launched
        /\ steps = <<>>
        /\ open_url = <<>>
        /\ exit_status \in {-1, 1}
        /\ pc = "done" => exit_status = 1
        /\ pc # "done" => ENABLED Next

\* C5 witness: the run ended with only GH_PAT empty
C5_Witness ==
    /\ pc = "done"
    /\ username = Str("octocat")
    /\ token = Str("")
    /\ exit_status = 1

\* C6: the exit status as the browser's behaviour alone decides it: 0 when
\* verify_login returned True and keepalive returned, 1 otherwise
C6_ExitStatus == IF verify_result = "True" /\ keepalive_result # "none" THEN 0 ELSE 1

\* C6: a step of send_notification changes neither the steps executed nor
\* cookies.json nor the browser's state, whatever Telegram answers, and the
\* run ends as the argument of send_notification says; the exit status of a
\* run is the one the browser's behaviour decides
C6_OutcomeIndependentOfNotifier ==
    /\ [](pc = "done" => exit_status = C6_ExitStatus)
    /\ [][(pc = "notify" \/ pc = "notify_photo") =>
            (/\ UNCHANGED <<steps, failed, cookie_file, cookie_writes, shotVars,
                            launched, closed, loginVars, waitVars, verifyVars,
                            keepalive_result, branch, open_url>>
             /\ pc' \in {"notify_photo", "exit"}
             /\ (pc' = "exit") => (exit_status' = (IF notify_success THEN 0 ELSE 1)))]_vars

\* C6 witness: a successful run ended with exit status 0 although a request
\* to Telegram failed
C6_Witness ==
    /\ pc = "done"
    /\ enabled
    /\ tg_failed
    /\ exit_status = 0

\* C7: the already-signed-in test found a URL without 'signin'
C7_SignedIn == open_url # <<>> /\ ~Contains(Lower(open_url), <<"signin">>)

\* C7 (as claimed): when the URL after opening the sign-in page has no
\* 'signin', the run does verify_login and keepalive, nothing else, and ends
\* with exit status 0.  Stated for the runs in which verify_login returned.
C7_SignedInExits0 ==
    (pc = "done" /\ C7_SignedIn /\ verify_result # "none") =>
        /\ steps = <<"open", "verify_login", "keepalive">>
        /\ exit_status = 0

\* C7 (amended): when the URL after opening the sign-in page has no 'signin',
\* the run calls verify_login and never enters the GitHub-button click,
\* login_github or wait_redirect; keepalive runs and the exit status is 0
\* only after verify_login returned True; when verify_login returned True and
\* keepalive returned, the exit status is 0, and otherwise it is 1
C7_SignedInSkipsLogin ==
    C7_SignedIn =>
        /\ Range(steps) \cap {"click", "login_github", "wait_redirect"} = {}
        /\ pc = "done" => verify_calls = 1
        /\ "keepalive" \in Range(steps) => verify_result = "True"
        /\ pc = "done" =>
              exit_status = (IF verify_result = "True" /\ keepalive_result # "none"
                             THEN 0 ELSE 1)

\* C7 witness: signed in already, verify_login returned False, exit status 1
C7_Witness ==
    /\ pc = "done"
    /\ C7_SignedIn
    /\ verify_result = "False"
    /\ exit_status = 1

\* C8 (as claimed): once an error-banner selector has matched a visible
\* element, login_github returns False after the error check alone, and the
\* run never enters wait_redirect, verify_login or keepalive and ends with
\* exit status 1
C8_BannerStopsLogin ==
    banner_visible =>
        /\ login_result = "False"
        /\ checks = <<"error">>
        /\ Range(steps) \cap {"wait_redirect", "verify_login", "keepalive"} = {}
        /\ pc = "done" => exit_status = 1

\* C9 (as claimed): a poll that reads the URL of the OAuth-consent page and
\* does not succeed calls handle_oauth and does not return failure
C9_OauthPollHandled ==
    (pc \in {"wait", "wait_ret"} /\ wr_oauth) =>
        /\ wr_handled
        /\ wr_why # "stuck"

\* C10: send_notification(True) and exit status 0 come only after
\* verify_login returned True and wrote at least one cookie to cookies.json in
\* this run, and no two notifications of a run differ in their outcome
C10_SuccessImpliesCookies ==
    /\ (TRUE \in Range(notifications) \/ exit_status = 0) =>
            /\ verify_result = "True"
            /\ cookie_writes >= 1
            /\ cookie_file.exists
            /\ Len(cookie_file.data) >= 1
    /\ \A i, j \in DOMAIN notifications : notifications[i] = notifications[j]

\* C10 witness: a run ended with a success notification and exit status 0
C10_Witness ==
    /\ pc = "done"
    /\ exit_status = 0
    /\ notifications = <<TRUE>>
    /\ cookie_writes = 1

====
